---- MODULE Spec2Model ----
(***************************************************************************)
(* A model of minigrep (src/src/lib.rs): Config::build, Config::run and    *)
(* the two search functions.                                               *)
(*                                                                         *)
(* A string is a sequence of Unicode code points (naturals); a Vec<&str>   *)
(* is a sequence of strings.  The standard-library calls the source makes  *)
(* (str::lines, str::contains, str::to_lowercase, Iterator::any,           *)
(* env::var, fs::read_to_string) are modelled by what they compute.        *)
(* println! is modelled with a standard output that accepts every write.   *)
(***************************************************************************)
EXTENDS Naturals, Sequences, FiniteSets

(***************************************************************************)
(* Bounds of the model.                                                    *)
(***************************************************************************)
MaxContentsLen == 4
MaxQueryLen == 2
MaxArgs == 5

(***************************************************************************)
(* Code points.                                                            *)
(***************************************************************************)
LF == 10
CR == 13
CAPITAL_SIGMA == 931
SMALL_SIGMA == 963
FINAL_SIGMA == 962

RECURSIVE SeqsUpTo(_, _)
SeqsUpTo(S, n) ==
    IF n = 0 THEN {<<>>}
    ELSE LET shorter == SeqsUpTo(S, n - 1)
         IN  shorter \cup {Append(s, c) : s \in shorter, c \in S}

(***************************************************************************)
(* str::lines(): the pieces of split_inclusive('\n'), each without its     *)
(* trailing "\n" or "\r\n".  A final piece that has no "\n" is kept as it  *)
(* is, and the empty string has no pieces.                                 *)
(***************************************************************************)
RECURSIVE split_inclusive(_, _, _)
split_inclusive(s, i, start) ==
    IF i > Len(s)
    THEN IF start > Len(s) THEN <<>> ELSE <<SubSeq(s, start, Len(s))>>
    ELSE IF s[i] = LF
         THEN <<SubSeq(s, start, i)>> \o split_inclusive(s, i + 1, i + 1)
         ELSE split_inclusive(s, i + 1, start)

strip_line_ending(piece) ==
    IF Len(piece) > 0 /\ piece[Len(piece)] = LF
    THEN LET line == SubSeq(piece, 1, Len(piece) - 1)
         IN  IF Len(line) > 0 /\ line[Len(line)] = CR
             THEN SubSeq(line, 1, Len(line) - 1)
             ELSE line
    ELSE piece

\* a line splitter that yields an empty last line after a final "\n"
lines_keep_trailing(s) ==
    LET pieces == split_inclusive(s, 1, 1)
        stripped == [k \in 1..Len(pieces) |-> strip_line_ending(pieces[k])]
    IN  IF Len(s) > 0 /\ s[Len(s)] = LF THEN Append(stripped, <<>>) ELSE stripped

lines(s) ==
    LET pieces == split_inclusive(s, 1, 1)
    IN  [k \in 1..Len(pieces) |-> strip_line_ending(pieces[k])]

(***************************************************************************)
(* str::contains(needle): a left-to-right scan for a position where the    *)
(* needle starts.                                                          *)
(***************************************************************************)
starts_with_at(haystack, needle, i) ==
    /\ i + Len(needle) - 1 <= Len(haystack)
    /\ \A k \in 1..Len(needle) : haystack[i + k - 1] = needle[k]

RECURSIVE contains_from(_, _, _)
contains_from(haystack, needle, i) ==
    IF i + Len(needle) - 1 > Len(haystack) THEN FALSE
    ELSE IF starts_with_at(haystack, needle, i) THEN TRUE
    ELSE contains_from(haystack, needle, i + 1)

\* a containment test that only looks at the start of the haystack
contains_prefix_only(haystack, needle) ==
    starts_with_at(haystack, needle, 1)

contains(haystack, needle) ==
    contains_from(haystack, needle, 1)

(***************************************************************************)
(* str::to_lowercase(): every char is replaced by its lowercase mapping,   *)
(* except that a capital sigma at the end of a word (after a cased letter, *)
(* not before one, skipping case-ignorable chars) becomes a final sigma.   *)
(* The character tables are restricted to ASCII and the basic Greek        *)
(* letters, the code points the model draws its strings from.              *)
(***************************************************************************)
to_lower(c) ==
    IF c >= 65 /\ c <= 90 THEN <<c + 32>>
    ELSE IF c >= 913 /\ c <= 939 /\ c # 930 THEN <<c + 32>>
    ELSE <<c>>

Cased(c) ==
    \/ c >= 65 /\ c <= 90
    \/ c >= 97 /\ c <= 122
    \/ c >= 913 /\ c <= 939 /\ c # 930
    \/ c >= 945 /\ c <= 969

Case_Ignorable(c) ==
    c \in {39, 46, 58, 94, 96}

RECURSIVE case_ignorable_then_cased(_)
case_ignorable_then_cased(iter) ==
    IF iter = <<>> THEN FALSE
    ELSE IF Case_Ignorable(Head(iter)) THEN case_ignorable_then_cased(Tail(iter))
    ELSE Cased(Head(iter))

Rev(s) ==
    [k \in 1..Len(s) |-> s[Len(s) + 1 - k]]

map_uppercase_sigma(from, i) ==
    LET is_word_final ==
            /\ case_ignorable_then_cased(Rev(SubSeq(from, 1, i - 1)))
            /\ ~case_ignorable_then_cased(SubSeq(from, i + 1, Len(from)))
    IN  IF is_word_final THEN <<FINAL_SIGMA>> ELSE <<SMALL_SIGMA>>

RECURSIVE to_lowercase_from(_, _)
to_lowercase_from(s, i) ==
    IF i > Len(s) THEN <<>>
    ELSE (IF s[i] = CAPITAL_SIGMA THEN map_uppercase_sigma(s, i) ELSE to_lower(s[i]))
         \o to_lowercase_from(s, i + 1)

to_lowercase(s) ==
    to_lowercase_from(s, 1)

(***************************************************************************)
(* contents.lines().filter(|line| line.contains(query)).collect(): the     *)
(* lines that satisfy the predicate, in the order the iterator yields      *)
(* them.                                                                   *)
(***************************************************************************)
RECURSIVE search_filter(_, _)
search_filter(iter, query) ==
    IF iter = <<>> THEN <<>>
    ELSE (IF contains(Head(iter), query) THEN <<Head(iter)>> ELSE <<>>)
         \o search_filter(Tail(iter), query)

search(query, contents) ==
    search_filter(lines(contents), query)

RECURSIVE search_case_insensitive_filter(_, _)
search_case_insensitive_filter(iter, query) ==
    IF iter = <<>> THEN <<>>
    ELSE (IF contains(to_lowercase(Head(iter)), query) THEN <<Head(iter)>> ELSE <<>>)
         \o search_case_insensitive_filter(Tail(iter), query)

\* a case-insensitive search that returns the lowercased lines
search_case_insensitive_lowered(query, contents) ==
    LET kept == search_case_insensitive_filter(lines(contents), to_lowercase(query))
    IN  [k \in 1..Len(kept) |-> to_lowercase(kept[k])]

search_case_insensitive(query, contents) ==
    LET query_lowered == to_lowercase(query)
    IN  search_case_insensitive_filter(lines(contents), query_lowered)

(***************************************************************************)
(* The inputs of the model.                                                *)
(***************************************************************************)
IGNORE_CASE_FLAG == <<45, 45, 105, 103, 110, 111, 114, 101, 45, 99, 97, 115, 101>>

\* "\n", "\r", "A", "a" and the capital sigma
Chars == {LF, CR, 65, 97, CAPITAL_SIGMA}

\* the query and the contents of tests::one_result
OneResultQuery == <<100, 117, 99, 116>>
OneResultContents ==
    <<82, 117, 115, 116, 58, 10, 115, 97, 102, 101, 44, 32, 102, 97, 115, 116,
      44, 32, 112, 114, 111, 100, 117, 99, 116, 105, 118, 101, 46, 10, 80, 105,
      99, 107, 32, 116, 104, 114, 101, 101, 46>>

\* the query and the contents of tests::case_insensitive
CaseInsensitiveQuery == <<114, 85, 115, 84>>
CaseInsensitiveContents ==
    <<82, 117, 115, 116, 58, 10, 115, 97, 102, 101, 44, 32, 102, 97, 115, 116,
      44, 32, 112, 114, 111, 100, 117, 99, 116, 105, 118, 101, 46, 10, 80, 105,
      99, 107, 32, 116, 104, 114, 101, 101, 46, 10, 84, 114, 117, 115, 116, 32,
      109, 101, 46>>

\* "a\nA\nb\na\n", "A\r\n\r\nxa\r\n\n" and "b\r\n--Ignore-Case\n--ignore-case a"
LongerContents ==
    { <<97, 10, 65, 10, 98, 10, 97, 10>>,
      <<65, 13, 10, 13, 10, 120, 97, 13, 10, 10>>,
      <<98, 13, 10, 45, 45, 73, 103, 110, 111, 114, 101, 45, 67, 97, 115, 101, 10>>
          \o IGNORE_CASE_FLAG \o <<32, 97>> }

Queries ==
    SeqsUpTo(Chars, MaxQueryLen) \cup {OneResultQuery, CaseInsensitiveQuery}

Contents ==
    SeqsUpTo(Chars, MaxContentsLen)
        \cup {OneResultContents, CaseInsensitiveContents} \cup LongerContents

\* command-line tokens: "", "a" and "--ignore-case"
Tokens == {<<>>, <<97>>, IGNORE_CASE_FLAG}

\* the states of the environment variable IGNORE_CASE
EnvValues == {"unset", "set_empty", "set_nonempty", "set_not_unicode"}

\* what fs::read_to_string finds at a path
ReadErrors == {"NotFound", "PermissionDenied", "InvalidData"}
Files ==
    [kind : ReadErrors, data : {<<>>}]
        \cup [kind : {"Ok"}, data : {<<>>} \cup LongerContents]

VARIABLES
    argv,          \* the tokens build is called with
    IGNORE_CASE,   \* the environment variable
    file,          \* the file system at config.file_path
    pc,            \* the position of the program
    args,          \* build: what is left of the iterator
    query,         \* build: the local query
    file_path,     \* build: the local file_path
    build_result,  \* "none", "Ok" or the Err message of build
    config,        \* the Config build returned
    reads,         \* the number of calls of fs::read_to_string
    contents,      \* run: the local contents
    results,       \* run: what is left of the results to print
    out,           \* the lines written to standard output
    run_result,    \* "none", "Ok" or the kind of the io::Error run returned
    err_out,       \* the messages written to standard error
    exit_status,   \* "running", "success" or "failure"
    s_query,       \* the search functions called alone: the query
    s_contents,    \* the search functions called alone: the contents
    returned,      \* the search functions that have returned
    found,         \* what search returned
    found_ci       \* what search_case_insensitive returned

pipeline_vars ==
    <<argv, IGNORE_CASE, file, pc, args, query, file_path, build_result, config,
      reads, contents, results, out, run_result, err_out, exit_status>>

search_vars == <<s_query, s_contents, returned, found, found_ci>>

vars == <<pipeline_vars, search_vars>>

MissingQuery == "Didn't get a query string"
MissingFilePath == "Didn't get a filepath"

NoConfig == [query |-> <<>>, file_path |-> <<>>, ignore_case |-> FALSE]

(***************************************************************************)
(* Config::build                                                           *)
(***************************************************************************)
\* a build that takes the first token as the query
build_keep_first ==
    /\ pc = "build_skip_first"
    /\ pc' = "build_query"
    /\ UNCHANGED <<argv, IGNORE_CASE, file, args, query, file_path, build_result,
                   config, reads, contents, results, out, run_result, err_out,
                   exit_status>>
    /\ UNCHANGED search_vars

\* args.next();
build_skip_first ==
    /\ pc = "build_skip_first"
    /\ args' = IF args = <<>> THEN <<>> ELSE Tail(args)
    /\ pc' = "build_query"
    /\ UNCHANGED <<argv, IGNORE_CASE, file, query, file_path, build_result, config,
                   reads, contents, results, out, run_result, err_out, exit_status>>
    /\ UNCHANGED search_vars

\* let query = match args.next() { Some(arg) => arg, None => return Err(..) };
build_query ==
    /\ pc = "build_query"
    /\ IF args = <<>>
       THEN /\ build_result' = MissingQuery
            /\ pc' = "build_returned"
            /\ UNCHANGED <<args, query>>
       ELSE /\ query' = Head(args)
            /\ args' = Tail(args)
            /\ pc' = "build_file_path"
            /\ UNCHANGED build_result
    /\ UNCHANGED <<argv, IGNORE_CASE, file, file_path, config,
                   reads, contents, results, out, run_result, err_out, exit_status>>
    /\ UNCHANGED search_vars

\* a build that also looks the path up in the file system
build_file_path_checked ==
    /\ pc = "build_file_path"
    /\ IF args = <<>>
       THEN /\ build_result' = MissingFilePath
            /\ pc' = "build_returned"
            /\ UNCHANGED <<args, file_path, reads>>
       ELSE /\ file_path' = Head(args)
            /\ args' = Tail(args)
            /\ reads' = reads + 1
            /\ pc' = "build_ignore_case"
            /\ UNCHANGED build_result
    /\ UNCHANGED <<argv, IGNORE_CASE, file, query, config,
                   contents, results, out, run_result, err_out, exit_status>>
    /\ UNCHANGED search_vars

\* let file_path = match args.next() { Some(..) => .., None => return Err(..) };
build_file_path ==
    /\ pc = "build_file_path"
    /\ IF args = <<>>
       THEN /\ build_result' = MissingFilePath
            /\ pc' = "build_returned"
            /\ UNCHANGED <<args, file_path>>
       ELSE /\ file_path' = Head(args)
            /\ args' = Tail(args)
            /\ pc' = "build_ignore_case"
            /\ UNCHANGED build_result
    /\ UNCHANGED <<argv, IGNORE_CASE, file, query, config,
                   reads, contents, results, out, run_result, err_out, exit_status>>
    /\ UNCHANGED search_vars

\* Iterator::any: whether some item the iterator still yields is the flag
RECURSIVE any_ignore_case(_)
any_ignore_case(iter) ==
    IF iter = <<>> THEN FALSE
    ELSE IF Head(iter) = IGNORE_CASE_FLAG THEN TRUE
    ELSE any_ignore_case(Tail(iter))

\* Iterator::any stops at the first item that satisfies the predicate
RECURSIVE after_any_ignore_case(_)
after_any_ignore_case(iter) ==
    IF iter = <<>> THEN <<>>
    ELSE IF Head(iter) = IGNORE_CASE_FLAG THEN Tail(iter)
    ELSE after_any_ignore_case(Tail(iter))

\* env::var(name).is_ok(): the variable is set and its value is valid Unicode
env_var_is_ok(value) ==
    value \in {"set_empty", "set_nonempty"}

\* a flag test that looks only at the token right after file_path
ignore_case_next_only(iter, env) ==
    IF iter # <<>> /\ Head(iter) = IGNORE_CASE_FLAG THEN TRUE ELSE env_var_is_ok(env)

\* let ignore_case = if args.any(..) { true } else { env::var(..).is_ok() };
ignore_case_of(iter, env) ==
    IF any_ignore_case(iter) THEN TRUE ELSE env_var_is_ok(env)

\* let ignore_case = ..; Ok(Config { query, file_path, ignore_case })
build_ignore_case ==
    /\ pc = "build_ignore_case"
    /\ config' = [query |-> query, file_path |-> file_path,
                  ignore_case |-> ignore_case_of(args, IGNORE_CASE)]
    /\ args' = after_any_ignore_case(args)
    /\ build_result' = "Ok"
    /\ pc' = "build_returned"
    /\ UNCHANGED <<argv, IGNORE_CASE, file, query, file_path,
                   reads, contents, results, out, run_result, err_out, exit_status>>
    /\ UNCHANGED search_vars

(***************************************************************************)
(* Config::run                                                             *)
(***************************************************************************)
\* a read whose failure is replaced by empty contents
run_read_to_string_or_default ==
    /\ pc = "run_read_to_string"
    /\ reads' = reads + 1
    /\ contents' = IF file.kind = "Ok" THEN file.data ELSE <<>>
    /\ pc' = "run_search"
    /\ UNCHANGED <<argv, IGNORE_CASE, file, args, query, file_path, build_result,
                   config, results, out, run_result, err_out, exit_status>>
    /\ UNCHANGED search_vars

\* let contents = fs::read_to_string(config.file_path)?;
run_read_to_string ==
    /\ pc = "run_read_to_string"
    /\ reads' = reads + 1
    /\ IF file.kind = "Ok"
       THEN /\ contents' = file.data
            /\ pc' = "run_search"
            /\ UNCHANGED run_result
       ELSE /\ run_result' = file.kind
            /\ pc' = "run_returned"
            /\ UNCHANGED contents
    /\ UNCHANGED <<argv, IGNORE_CASE, file, args, query, file_path, build_result,
                   config, results, out, err_out, exit_status>>
    /\ UNCHANGED search_vars

\* a dispatch that always searches case-sensitively
run_search_always_sensitive ==
    /\ pc = "run_search"
    /\ results' = search(config.query, contents)
    /\ pc' = "run_println"
    /\ UNCHANGED <<argv, IGNORE_CASE, file, args, query, file_path, build_result,
                   config, reads, contents, out, run_result, err_out, exit_status>>
    /\ UNCHANGED search_vars

\* let results = if config.ignore_case { search_case_insensitive(..) } else { search(..) };
run_search ==
    /\ pc = "run_search"
    /\ results' = IF config.ignore_case
                  THEN search_case_insensitive(config.query, contents)
                  ELSE search(config.query, contents)
    /\ pc' = "run_println"
    /\ UNCHANGED <<argv, IGNORE_CASE, file, args, query, file_path, build_result,
                   config, reads, contents, out, run_result, err_out, exit_status>>
    /\ UNCHANGED search_vars

\* for line in results { println!("{line}"); }
run_println ==
    /\ pc = "run_println"
    /\ results # <<>>
    /\ out' = Append(out, Head(results))
    /\ results' = Tail(results)
    /\ UNCHANGED <<argv, IGNORE_CASE, file, pc, args, query, file_path, build_result,
                   config, reads, contents, run_result, err_out, exit_status>>
    /\ UNCHANGED search_vars

\* Ok(())
run_ok ==
    /\ pc = "run_println"
    /\ results = <<>>
    /\ run_result' = "Ok"
    /\ pc' = "run_returned"
    /\ UNCHANGED <<argv, IGNORE_CASE, file, args, query, file_path, build_result,
                   config, reads, contents, results, out, err_out, exit_status>>
    /\ UNCHANGED search_vars

(***************************************************************************)
(* The caller of build and run: it reports an error of either on standard  *)
(* error and ends with a failure status, and calls run with the Config     *)
(* that build returned.                                                    *)
(***************************************************************************)
main_build_failed ==
    /\ pc = "build_returned"
    /\ build_result # "Ok"
    /\ err_out' = Append(err_out, build_result)
    /\ exit_status' = "failure"
    /\ pc' = "exited"
    /\ UNCHANGED <<argv, IGNORE_CASE, file, args, query, file_path, build_result,
                   config, reads, contents, results, out, run_result>>
    /\ UNCHANGED search_vars

main_calls_run ==
    /\ pc = "build_returned"
    /\ build_result = "Ok"
    /\ pc' = "run_read_to_string"
    /\ UNCHANGED <<argv, IGNORE_CASE, file, args, query, file_path, build_result,
                   config, reads, contents, results, out, run_result, err_out,
                   exit_status>>
    /\ UNCHANGED search_vars

main_run_failed ==
    /\ pc = "run_returned"
    /\ run_result # "Ok"
    /\ err_out' = Append(err_out, run_result)
    /\ exit_status' = "failure"
    /\ pc' = "exited"
    /\ UNCHANGED <<argv, IGNORE_CASE, file, args, query, file_path, build_result,
                   config, reads, contents, results, out, run_result>>
    /\ UNCHANGED search_vars

main_run_ok ==
    /\ pc = "run_returned"
    /\ run_result = "Ok"
    /\ exit_status' = "success"
    /\ pc' = "exited"
    /\ UNCHANGED <<argv, IGNORE_CASE, file, args, query, file_path, build_result,
                   config, reads, contents, results, out, run_result, err_out>>
    /\ UNCHANGED search_vars

(***************************************************************************)
(* The program: build is called with the tokens of the command line.       *)
(***************************************************************************)
Init ==
    /\ argv \in SeqsUpTo(Tokens, MaxArgs)
    /\ IGNORE_CASE \in EnvValues
    /\ file \in Files
    /\ pc = "build_skip_first"
    /\ args = argv
    /\ query = <<>>
    /\ file_path = <<>>
    /\ build_result = "none"
    /\ config = NoConfig
    /\ reads = 0
    /\ contents = <<>>
    /\ results = <<>>
    /\ out = <<>>
    /\ run_result = "none"
    /\ err_out = <<>>
    /\ exit_status = "running"
    /\ s_query = <<>>
    /\ s_contents = <<>>
    /\ returned = {}
    /\ found = <<>>
    /\ found_ci = <<>>

Next ==
    \/ build_skip_first
    \/ build_query
    \/ build_file_path
    \/ build_ignore_case
    \/ main_build_failed
    \/ main_calls_run
    \/ run_read_to_string
    \/ run_search
    \/ run_println
    \/ run_ok
    \/ main_run_failed
    \/ main_run_ok

Spec == Init /\ [][Next]_vars

(***************************************************************************)
(* The search functions called alone, on every query and contents of the   *)
(* bounded sets.                                                           *)
(***************************************************************************)
call_search ==
    /\ pc = "search_calls"
    /\ "search" \notin returned
    /\ found' = search(s_query, s_contents)
    /\ returned' = returned \cup {"search"}
    /\ UNCHANGED <<s_query, s_contents, found_ci>>
    /\ UNCHANGED pipeline_vars

call_search_case_insensitive ==
    /\ pc = "search_calls"
    /\ "search_case_insensitive" \notin returned
    /\ found_ci' = search_case_insensitive(s_query, s_contents)
    /\ returned' = returned \cup {"search_case_insensitive"}
    /\ UNCHANGED <<s_query, s_contents, found>>
    /\ UNCHANGED pipeline_vars

InitSearch ==
    /\ s_query \in Queries
    /\ s_contents \in Contents
    /\ returned = {}
    /\ found = <<>>
    /\ found_ci = <<>>
    /\ pc = "search_calls"
    /\ argv = <<>>
    /\ IGNORE_CASE = "unset"
    /\ file = [kind |-> "NotFound", data |-> <<>>]
    /\ args = <<>>
    /\ query = <<>>
    /\ file_path = <<>>
    /\ build_result = "none"
    /\ config = NoConfig
    /\ reads = 0
    /\ contents = <<>>
    /\ results = <<>>
    /\ out = <<>>
    /\ run_result = "none"
    /\ err_out = <<>>
    /\ exit_status = "running"

NextSearch ==
    \/ call_search
    \/ call_search_case_insensitive

SpecSearch == InitSearch /\ [][NextSearch]_vars

(***************************************************************************)
(* What the properties are stated with.                                    *)
(***************************************************************************)
\* needle occurs in haystack as a contiguous run of chars
IsSubstring(needle, haystack) ==
    \E i \in 0..(Len(haystack) - Len(needle)) :
        SubSeq(haystack, i + 1, i + Len(needle)) = needle

\* a can be obtained from b by deleting elements
RECURSIVE IsSubsequence(_, _)
IsSubsequence(a, b) ==
    IF a = <<>> THEN TRUE
    ELSE IF b = <<>> THEN FALSE
    ELSE IF Head(a) = Head(b) THEN IsSubsequence(Tail(a), Tail(b))
    ELSE IsSubsequence(a, Tail(b))

\* the pieces of s between line terminators ("\n" or "\r\n"): one for every
\* "\n", and one more for the chars after the last "\n" when there are any
LinesOf(s) ==
    LET nl == {i \in 1..Len(s) : s[i] = LF}
        n == Cardinality(nl) + (IF Len(s) > 0 /\ s[Len(s)] # LF THEN 1 ELSE 0)
        kth(k) == CHOOSE i \in nl : Cardinality({j \in nl : j <= i}) = k
        start(k) == IF k = 1 THEN 1 ELSE kth(k - 1) + 1
        stop(k) == IF k <= Cardinality(nl)
                   THEN IF kth(k) > start(k) /\ s[kth(k) - 1] = CR
                        THEN kth(k) - 2
                        ELSE kth(k) - 1
                   ELSE Len(s)
    IN  [k \in 1..n |-> SubSeq(s, start(k), stop(k))]

MatchingLines(q, c) ==
    SelectSeq(LinesOf(c), LAMBDA line : IsSubstring(q, line))

MatchingLinesLowered(q, c) ==
    SelectSeq(LinesOf(c),
              LAMBDA line : IsSubstring(to_lowercase(q), to_lowercase(line)))

FlagAfterPositionals == \E i \in 4..Len(argv) : argv[i] = IGNORE_CASE_FLAG

\* what run has to print once the file is read
Expected ==
    IF config.ignore_case
    THEN search_case_insensitive(config.query, file.data)
    ELSE search(config.query, file.data)

BuildPositions ==
    {"build_skip_first", "build_query", "build_file_path", "build_ignore_case",
     "build_returned"}

(***************************************************************************)
(* C1: search returns exactly the lines of contents that contain query as  *)
(* a case-sensitive substring: every returned line contains query, every   *)
(* line that contains query is returned, and the result is the filtered    *)
(* subsequence of the lines, in order and with multiplicity.  The query    *)
(* "duct" over the three lines of tests::one_result yields the one line    *)
(* "safe, fast, productive.".                                              *)
(***************************************************************************)
C1_SearchReturnsMatchingLines ==
    "search" \in returned =>
        /\ found = MatchingLines(s_query, s_contents)
        /\ \A k \in 1..Len(found) : IsSubstring(s_query, found[k])
        /\ \A k \in 1..Len(LinesOf(s_contents)) :
               IsSubstring(s_query, LinesOf(s_contents)[k])
                   => \E j \in 1..Len(found) : found[j] = LinesOf(s_contents)[k]
        /\ IsSubsequence(found, LinesOf(s_contents))
        /\ (s_query = OneResultQuery /\ s_contents = OneResultContents)
               => found = <<SubSeq(OneResultContents, 7, 29)>>

\* a non-empty query that is found twice and missed on other lines
C1_Witness ==
    /\ "search" \in returned
    /\ s_query # <<>>
    /\ Len(found) = 2
    /\ found[1] = found[2]
    /\ Len(LinesOf(s_contents)) = 4

(***************************************************************************)
(* C2: search_case_insensitive returns, in order, exactly the lines of     *)
(* contents whose lowercased form contains the lowercased query, and each  *)
(* returned line is the line as it stands in contents, not its lowercased  *)
(* form.  The query "rUsT" over the four lines of tests::case_insensitive  *)
(* yields "Rust:" and "Trust me.".                                         *)
(***************************************************************************)
C2_CaseInsensitiveReturnsOriginalLines ==
    "search_case_insensitive" \in returned =>
        /\ found_ci = MatchingLinesLowered(s_query, s_contents)
        /\ \A k \in 1..Len(found_ci) :
               \E j \in 1..Len(LinesOf(s_contents)) :
                   found_ci[k] = LinesOf(s_contents)[j]
        /\ (s_query = CaseInsensitiveQuery /\ s_contents = CaseInsensitiveContents)
               => found_ci = << SubSeq(CaseInsensitiveContents, 1, 5),
                                SubSeq(CaseInsensitiveContents, 43, 51) >>

\* the test's case: two lines returned in their original case
C2_Witness ==
    /\ "search_case_insensitive" \in returned
    /\ s_query = CaseInsensitiveQuery
    /\ s_contents = CaseInsensitiveContents
    /\ Len(found_ci) = 2
    /\ to_lowercase(found_ci[1]) # found_ci[1]

(***************************************************************************)
(* C3: the result of search_case_insensitive is an order-preserving        *)
(* superset of the result of search: every line search returns is          *)
(* returned by search_case_insensitive too, in the same relative order.    *)
(***************************************************************************)
C3_CaseInsensitiveSuperset ==
    returned = {"search", "search_case_insensitive"} =>
        IsSubsequence(found, found_ci)

(***************************************************************************)
(* C8: with the empty query, search and search_case_insensitive both       *)
(* return all the lines of contents, unchanged and in order: one line per  *)
(* line terminator, without an empty last entry for a final terminator,    *)
(* with the empty lines in between, and no line for empty contents.        *)
(***************************************************************************)
C8_EmptyQueryReturnsAllLines ==
    (s_query = <<>> /\ returned = {"search", "search_case_insensitive"}) =>
        /\ found = LinesOf(s_contents)
        /\ found_ci = LinesOf(s_contents)
        /\ s_contents = <<>> => found = <<>>
        /\ (s_contents # <<>> /\ s_contents[Len(s_contents)] = LF)
               => Len(found) = Cardinality({i \in 1..Len(s_contents) :
                                               s_contents[i] = LF})
        /\ \A k \in 1..Len(found) : ~IsSubstring(<<LF>>, found[k])

\* contents that end with a terminator and have an empty line inside
C8_Witness ==
    /\ s_query = <<>>
    /\ returned = {"search", "search_case_insensitive"}
    /\ Len(s_contents) = 3
    /\ s_contents[3] = LF
    /\ found = <<<<>>, <<s_contents[2]>>>>
    /\ found_ci = found

(***************************************************************************)
(* C4: build discards the first token, takes the next one as query and     *)
(* the one after as file_path: with no or one token it fails with the      *)
(* missing-query error, with two tokens with the missing-file-path error,  *)
(* and with three or more it succeeds with query the second and file_path  *)
(* the third token, whatever they are.                                     *)
(***************************************************************************)
C4_BuildPositionalTokens ==
    build_result # "none" =>
        /\ Len(argv) <= 1 => build_result = MissingQuery
        /\ Len(argv) = 2 => build_result = MissingFilePath
        /\ Len(argv) >= 3 =>
               /\ build_result = "Ok"
               /\ config.query = argv[2]
               /\ config.file_path = argv[3]

\* a successful build with an empty query and an empty file_path
C4_Witness ==
    /\ build_result = "Ok"
    /\ pc = "build_returned"
    /\ argv[1] # <<>>
    /\ config.query = <<>>
    /\ config.file_path = <<>>

(***************************************************************************)
(* C5: after a successful build, ignore_case is true exactly when a token  *)
(* after the file_path token is "--ignore-case" or the environment         *)
(* variable IGNORE_CASE is set, to any value.                              *)
(***************************************************************************)
C5_IgnoreCaseIsFlagOrEnvSet ==
    build_result = "Ok" =>
        config.ignore_case = (FlagAfterPositionals \/ IGNORE_CASE # "unset")

C9_NoReadBeforeBuildSucceeds ==
    /\ pc \in BuildPositions => reads = 0
    /\ reads > 0 => build_result = "Ok"
    /\ build_result \in {MissingQuery, MissingFilePath} =>
           /\ reads = 0
           /\ out = <<>>
           /\ pc = "exited" => exit_status = "failure" /\ err_out = <<build_result>>
    /\ (pc = "build_returned" /\ Len(argv) >= 3 /\ file.kind # "Ok") =>
           build_result = "Ok"

\* the program has ended on a missing file path without a read
C9_Witness ==
    /\ pc = "exited"
    /\ build_result = MissingFilePath
    /\ exit_status = "failure"
    /\ reads = 0
====
